---- MODULE Spec2Model ----
(***************************************************************************)
(* Model of torch/_inductor/codegen/cpp_bmm_template.py (CppBmmTemplate).  *)
(*                                                                         *)
(* Three state machines share this module:                                 *)
(*   SpecDispatch  the execution of the emitted BMM_WRAPPER: the OpenMP    *)
(*                 parallel loop over single_thread_mm followed by the     *)
(*                 sequential loop over threaded_mm;                       *)
(*   Spec          the generator: CppBmmTemplate.render and                *)
(*                 get_gemm_function_call acting on kernel.render_hooks    *)
(*                 and kernel.args.sizevars;                               *)
(*   SpecWeight    the weight preprocessing functions                      *)
(*                 (check_if_block_weight, get_padded_size,                *)
(*                 _block_weight_irnode, _pack_vnni_weight_irnode).        *)
(***************************************************************************)
EXTENDS Integers, Sequences, FiniteSets, TLC

VARIABLES
    \* ---- emitted wrapper (BMM_WRAPPER) ----
    B,                      \* const int64_t B
    num_threads,            \* the template's num_threads
    B_single_thread_block,  \* int64_t B_single_thread_block
    wpc,                    \* position in the wrapper body
    claimed,                \* iterations of the first loop handed to a thread
    worker,                 \* per OpenMP thread: the call it is executing
    single_done,            \* per batch index: completed single_thread_mm calls
    single_started,         \* per batch index: started single_thread_mm calls
    b_start,                \* loop variable of the second (sequential) loop
    threaded_running,       \* threaded_mm calls in flight
    threaded_log,           \* indices passed to threaded_mm, in call order
    \* ---- generator (CppBmmTemplate.render on one kernel) ----
    render_hooks,           \* kernel.render_hooks: ordered placeholder -> hook
    sizevars,               \* kernel.args.sizevars: ordered symbol -> name
    rpc,                    \* position in render
    gen,                    \* number of the BMM generation (template instance)
    result,                 \* the text composed so far, as a sequence of items
    executed,               \* hooks executed so far: <<name, by>>
    ret,                    \* outcome of the last get_gemm_function_call
    ncalls,                 \* number of direct get_gemm_function_call calls
    other_hooks,            \* entries registered before this render or by other code
    args_at_finalize,       \* kernel.args.python_argdefs() when the hooks ran
    b_index_log,            \* the batch index symbol of each generation
    \* ---- weight preprocessing ----
    W,                      \* the weight argument
    b_layout,               \* micro_gemm.get_b_layout()
    dims,                   \* n, k, block_n
    wop,                    \* the function applied last
    wout                    \* what it returned

dvars == <<B, num_threads, B_single_thread_block, wpc, claimed, worker,
           single_done, single_started, b_start, threaded_running, threaded_log>>

rvars == <<render_hooks, sizevars, rpc, gen, result, executed, ret, ncalls,
           other_hooks, args_at_finalize, b_index_log>>

wvars == <<W, b_layout, dims, wop, wout>>

vars == <<dvars, rvars, wvars>>

\* ------------------------------------------------------------------ bounds
MaxB == 5
MaxT == 3
MaxRenders == 2
MaxCalls == 2
MaxN == 5
MaxOps == 7

\* =========================================================================
\* The emitted dispatch wrapper
\* =========================================================================

NoCall == [b_start |-> -1, b_index |-> -1, slices |-> {}]

\* The state of each machine while another one is being run.
NoRet == [token |-> <<>>, outcome |-> "none", value |-> <<>>]
NoArgs == [arg_defs |-> <<>>, call_args |-> <<>>]

DispatchOff ==
    /\ B = 0 /\ num_threads = 1 /\ B_single_thread_block = -1 /\ wpc = "off"
    /\ claimed = {} /\ worker = <<NoCall>>
    /\ single_done = <<>> /\ single_started = <<>>
    /\ b_start = -1 /\ threaded_running = {} /\ threaded_log = <<>>

RenderOff ==
    /\ render_hooks = <<>> /\ sizevars = <<>> /\ rpc = "off" /\ gen = 0
    /\ result = <<>> /\ executed = <<>> /\ ret = NoRet /\ ncalls = 0
    /\ other_hooks = <<>> /\ args_at_finalize = NoArgs /\ b_index_log = <<>>

WeightOff ==
    /\ W = [kind |-> "none"] /\ b_layout = "NORMAL"
    /\ dims = [n |-> 0, k |-> 0, block_n |-> 0]
    /\ wop = "off" /\ wout = [kind |-> "none"]

Threads == 1..num_threads

\* int64_t B_single_thread_block = (B / num_threads) * num_threads;   (T > 1)
\* int64_t B_single_thread_block = B;                                (else)
B_single_thread_block_mut(b, t) == IF t > 1 THEN ((b + t - 1) \div t) * t ELSE b
B_single_thread_block_of(b, t) == IF t > 1 THEN (b \div t) * t ELSE b

\* The call site rendered by get_gemm_function_call(..., b_index="b_start"):
\* the batch index argument of the call is the loop variable.
call_b_index(bs) == bs

\* kernel.select(options[kword], 0, self.b_index) for X, W, Y, GemmOut, Y_2d:
\* the kernel body addresses the operands through their slice at the batch
\* index along axis 0.
select_axis0_mut(bi) == 0..bi
select_axis0(bi) == {bi}

\* Which iteration a free thread may take.  With the pragma (T > 1) the
\* assignment of iterations to threads is the OpenMP runtime's choice; without
\* it the plain for loop runs the iterations in increasing order.
MayTake(b) ==
    /\ b \in 0..(B_single_thread_block - 1)
    /\ b \notin claimed
    /\ (num_threads = 1 => \A c \in 0..(b - 1) : c \in claimed)

\* End of the first loop: every iteration was handed out and, by the implicit
\* barrier at the end of the parallel-for region, every thread has finished.
ParallelLoopExit_mut == claimed = 0..(B_single_thread_block - 1)
ParallelLoopExit ==
    /\ claimed = 0..(B_single_thread_block - 1)
    /\ \A w \in Threads : worker[w] = NoCall

\* The batch sizes and thread counts run: all small ones, and the larger
\* scenarios B = 10, T = 4 and B = 3, T = 8.
Cases == ((0..MaxB) \X (1..MaxT)) \cup {<<10, 4>>, <<3, 8>>}

InitDispatch ==
    /\ RenderOff
    /\ WeightOff
    /\ \E c \in Cases : B = c[1] /\ num_threads = c[2]
    /\ B_single_thread_block = -1
    /\ wpc = "entry"
    /\ claimed = {}
    /\ worker = [w \in 1..num_threads |-> NoCall]
    /\ single_done = [b \in 0..(B - 1) |-> 0]
    /\ single_started = [b \in 0..(B - 1) |-> 0]
    /\ b_start = -1
    /\ threaded_running = {}
    /\ threaded_log = <<>>

ComputeBlock ==
    /\ wpc = "entry"
    /\ B_single_thread_block' = B_single_thread_block_of(B, num_threads)
    /\ wpc' = "single_loop"
    /\ UNCHANGED <<rvars, wvars>>
    /\ UNCHANGED <<B, num_threads, claimed, worker, single_done, single_started,
                   b_start, threaded_running, threaded_log>>

StartSingle(w, b) ==
    /\ wpc = "single_loop"
    /\ worker[w] = NoCall
    /\ MayTake(b)
    /\ claimed' = claimed \cup {b}
    /\ worker' = [worker EXCEPT ![w] =
                    [b_start |-> b,
                     b_index |-> call_b_index(b),
                     slices |-> select_axis0(call_b_index(b))]]
    /\ single_started' = [single_started EXCEPT ![call_b_index(b)] = @ + 1]
    /\ UNCHANGED <<rvars, wvars>>
    /\ UNCHANGED <<B, num_threads, B_single_thread_block, wpc, single_done,
                   b_start, threaded_running, threaded_log>>

EndSingle(w) ==
    /\ wpc \in {"single_loop", "threaded_loop"}
    /\ worker[w] # NoCall
    /\ single_done' = [single_done EXCEPT ![worker[w].b_index] = @ + 1]
    /\ worker' = [worker EXCEPT ![w] = NoCall]
    /\ UNCHANGED <<rvars, wvars>>
    /\ UNCHANGED <<B, num_threads, B_single_thread_block, wpc, claimed,
                   single_started, b_start, threaded_running, threaded_log>>

EnterThreadedLoop ==
    /\ wpc = "single_loop"
    /\ ParallelLoopExit
    /\ wpc' = "threaded_loop"
    /\ b_start' = B_single_thread_block
    /\ UNCHANGED <<rvars, wvars>>
    /\ UNCHANGED <<B, num_threads, B_single_thread_block, claimed, worker,
                   single_done, single_started, threaded_running, threaded_log>>

StartThreaded ==
    /\ wpc = "threaded_loop"
    /\ b_start < B
    /\ threaded_running = {}
    /\ threaded_running' = {call_b_index(b_start)}
    /\ threaded_log' = Append(threaded_log, call_b_index(b_start))
    /\ UNCHANGED <<rvars, wvars>>
    /\ UNCHANGED <<B, num_threads, B_single_thread_block, wpc, claimed, worker,
                   single_done, single_started, b_start>>

EndThreaded ==
    /\ wpc = "threaded_loop"
    /\ threaded_running # {}
    /\ threaded_running' = {}
    /\ b_start' = b_start + 1
    /\ UNCHANGED <<rvars, wvars>>
    /\ UNCHANGED <<B, num_threads, B_single_thread_block, wpc, claimed, worker,
                   single_done, single_started, threaded_log>>

WrapperReturn ==
    /\ wpc = "threaded_loop"
    /\ b_start >= B
    /\ threaded_running = {}
    /\ \A w \in Threads : worker[w] = NoCall
    /\ wpc' = "done"
    /\ UNCHANGED <<rvars, wvars>>
    /\ UNCHANGED <<B, num_threads, B_single_thread_block, claimed, worker,
                   single_done, single_started, b_start, threaded_running,
                   threaded_log>>

NextDispatch ==
    \/ ComputeBlock
    \/ \E w \in Threads, b \in 0..(B + num_threads) : StartSingle(w, b)
    \/ \E w \in Threads : EndSingle(w)
    \/ EnterThreadedLoop
    \/ StartThreaded
    \/ EndThreaded
    \/ WrapperReturn

SpecDispatch == InitDispatch /\ [][NextDispatch]_vars

\* ------------------------------------------------- claims on the wrapper

Count(seq, x) == Cardinality({i \in 1..Len(seq) : seq[i] = x})

Running == {w \in Threads : worker[w] # NoCall}

\* C1: for every B >= 0 and T >= 1 the wrapper invokes a kernel for every
\* batch index of [0, B) exactly once: [0, B_single) through single_thread_mm
\* and [B_single, B) through threaded_mm, where B_single = floor(B/T)*T is a
\* multiple of T with 0 <= B - B_single < T (T = 1: everything single-threaded;
\* B=10,T=4 -> 8; B=3,T=8 -> 0; B=0 -> 0).
C1_DispatchCoversBatchOnce ==
    /\ wpc # "entry" =>
         /\ B_single_thread_block = (B \div num_threads) * num_threads
         /\ B_single_thread_block % num_threads = 0
         /\ 0 <= B - B_single_thread_block
         /\ B - B_single_thread_block < num_threads
         /\ (num_threads = 1 => B_single_thread_block = B)
    /\ \A b \in 0..(B - 1) : single_started[b] + Count(threaded_log, b) <= 1
    /\ \A i \in 1..Len(threaded_log) : threaded_log[i] \in 0..(B - 1)
    /\ \A w \in Running : worker[w].b_index \in 0..(B - 1)
    /\ wpc = "done" =>
         \A b \in 0..(B - 1) :
            IF b < B_single_thread_block
            THEN single_started[b] = 1 /\ single_done[b] = 1
                 /\ Count(threaded_log, b) = 0
            ELSE single_started[b] = 0 /\ Count(threaded_log, b) = 1
    /\ (wpc # "entry" /\ B = 10 /\ num_threads = 4) => B_single_thread_block = 8
    /\ (wpc # "entry" /\ B = 3 /\ num_threads = 8) => B_single_thread_block = 0
    /\ (wpc # "entry" /\ B = 0) => B_single_thread_block = 0
    /\ (wpc = "done" /\ B = 10 /\ num_threads = 4) => threaded_log = <<8, 9>>
    /\ (wpc = "done" /\ B = 3 /\ num_threads = 8) => threaded_log = <<0, 1, 2>>
    /\ (wpc = "done" /\ B = 0) => threaded_log = <<>>

C1_Witness ==
    /\ wpc = "done"
    /\ B = 10
    /\ num_threads = 4
    /\ \A b \in 0..7 : single_done[b] = 1
    /\ threaded_log = <<8, 9>>

\* C2: all single_thread_mm iterations over [0, B_single) have completed
\* before the first threaded_mm call starts, no threaded_mm call overlaps a
\* single_thread_mm call, and threaded_mm calls run one at a time in
\* increasing index order.
C2_BarrierBeforeRemainder ==
    /\ (threaded_running # {} \/ threaded_log # <<>>) =>
         /\ \A b \in 0..(B_single_thread_block - 1) : single_done[b] = 1
         /\ Running = {}
    /\ Cardinality(threaded_running) <= 1
    /\ \A i \in 1..Len(threaded_log) :
         threaded_log[i] = B_single_thread_block + i - 1

C2_Witness ==
    /\ num_threads > 1
    /\ B_single_thread_block > 0
    /\ Len(threaded_log) = 2
    /\ threaded_running # {}

\* C3: under every interleaving of the workers of the parallel loop no two
\* iterations operate on the same batch index: iteration b_start passes only
\* b_start to its kernel call, the kernel addresses its operands only through
\* the slice at that index, and concurrent iterations touch disjoint slices.
C3_DisjointBatchSlices ==
    /\ \A w \in Running :
         /\ worker[w].b_index = worker[w].b_start
         /\ worker[w].slices = {worker[w].b_start}
    /\ \A w1 \in Running : \A w2 \in Running :
         w1 # w2 =>
            /\ worker[w1].b_start # worker[w2].b_start
            /\ worker[w1].slices \cap worker[w2].slices = {}

C3_Witness ==
    /\ Cardinality(Running) >= 2
    /\ \E w \in Running : worker[w].b_start > 0

\* =========================================================================
\* The generator: CppBmmTemplate.render, get_gemm_function_call
\* =========================================================================

\* Placeholder strings, written as the sequence of words that "_" separates:
\* "<SINGLE_THREAD_DEF_MM_FOR_BMM>" is <<"SINGLE","THREAD","DEF","MM","FOR","BMM">>.
SINGLE_THREAD_DEF_MM_FOR_BMM == <<"SINGLE", "THREAD", "DEF", "MM", "FOR", "BMM">>
THREADED_MM_DEF_FOR_BMM == <<"THREADED", "MM", "DEF", "FOR", "BMM">>
SINGLE_THREAD_CALL_FOR_BMM == <<"SINGLE", "THREAD", "CALL", "FOR", "BMM">>
THREADED_MM_CALL_FOR_BMM == <<"THREADED", "MM", "CALL", "FOR", "BMM">>
\* def_kernel's placeholder when the caller passes none (the wrapper's).
DEF_KERNEL == <<"DEF", "KERNEL">>
\* Placeholders other parts of the compiler register on the same kernel.
ForeignPlaceholders == {<<"STORE", "OUTPUT">>, <<"BMM", "FOR", "EPILOGUE">>}
\* Tokens a direct caller of get_gemm_function_call passes.
CallPlaceholders == {SINGLE_THREAD_CALL_FOR_BMM, THREADED_MM_CALL_FOR_BMM}

\* "FOR_BMM" in name
ContainsForBmm_mut(name) == TRUE
ContainsForBmm(name) ==
    \E i \in 1..(Len(name) - 1) : name[i] = "FOR" /\ name[i + 1] = "BMM"

\* sympy.Symbol(name, integer=..., nonnegative=...): two symbols are the same
\* symbol exactly when their name and assumptions are the same.
Symbol(name, integer, nonnegative) ==
    [name |-> name, integer |-> integer, nonnegative |-> nonnegative]

\* self.b_index = sympy.Symbol("s_b_index", integer=True, nonnegative=True)
\* of the template instance of generation g.
b_index(g) == Symbol("s_b_index", TRUE, TRUE)

\* Size variables other code registers on the same kernel.
ForeignSizevars ==
    {[sym |-> Symbol("s0", TRUE, TRUE), name |-> "ks0", gen |-> 0],
     [sym |-> Symbol("s1", TRUE, TRUE), name |-> "ks1", gen |-> 0]}

Names(hooks) == {hooks[i].name : i \in 1..Len(hooks)}
Keys(sv) == {sv[i].sym : i \in 1..Len(sv)}

\* The ordered dictionary without the entries of the given names.
WithoutNames(hooks, names) ==
    LET F[i \in 0..Len(hooks)] ==
            IF i = 0 THEN <<>>
            ELSE IF hooks[i].name \in names THEN F[i - 1]
                 ELSE Append(F[i - 1], hooks[i])
    IN F[Len(hooks)]

Buffer(name) == [buffer |-> name]

\* kernel.args.python_argdefs(): the kernel's buffers, then its size variables.
python_argdefs(sv) ==
    [arg_defs |-> <<"in_ptr0", "in_ptr1", "out_ptr0">>
                    \o [i \in 1..Len(sv) |-> sv[i].name],
     call_args |-> <<Buffer("X"), Buffer("W"), Buffer("Y")>>
                    \o [i \in 1..Len(sv) |-> sv[i].sym]]

\* kernel.args.sizevars[sizevar] = name
set_sizevar(sv, sym, g) ==
    IF sym \in Keys(sv) THEN sv
    ELSE Append(sv, [sym |-> sym, name |-> "ks_b_index", gen |-> g])

\* del kernel.args.sizevars[options["b_index"]]
del_sizevar_mut(sv, sym) == sv
del_sizevar(sv, sym) ==
    LET F[i \in 0..Len(sv)] ==
            IF i = 0 THEN <<>>
            ELSE IF sv[i].sym = sym THEN F[i - 1] ELSE Append(F[i - 1], sv[i])
    IN F[Len(sv)]

CallHook(function_name, expr, sym, g) ==
    [kind |-> "call", function_name |-> function_name, b_index |-> expr,
     self_b_index |-> sym, gen |-> g]
DefHook(function_name, sym, g) ==
    [kind |-> "def", function_name |-> function_name, b_index |-> "",
     self_b_index |-> sym, gen |-> g]
ForeignHook ==
    [kind |-> "other", function_name |-> "", b_index |-> "",
     self_b_index |-> Symbol("", FALSE, FALSE), gen |-> 0]

\* kernel.def_kernel(..., function_name, extra_sizevars, placeholder): registers
\* the extra size variables and a deferred hook for the function definition.
def_kernel(hooks, sv, function_name, extra_sizevars, placeholder, g) ==
    LET sv2 == IF extra_sizevars = <<>> THEN sv
               ELSE set_sizevar(sv, extra_sizevars[1], g)
    IN  IF placeholder \in Names(hooks)
        THEN [raised |-> TRUE, hooks |-> hooks, sizevars |-> sv2]
        ELSE [raised |-> FALSE,
              hooks |-> Append(hooks, [name |-> placeholder,
                          hook |-> DefHook(function_name, b_index(g), g)]),
              sizevars |-> sv2]

\* CppBmmTemplate.get_gemm_function_call
get_gemm_function_call_mut(hooks, function_name, placeholder, expr, g) ==
    [raised |-> FALSE,
     hooks |-> IF placeholder \in Names(hooks)
               THEN [i \in 1..Len(hooks) |->
                        IF hooks[i].name = placeholder
                        THEN [name |-> placeholder,
                              hook |-> CallHook(function_name, expr, b_index(g), g)]
                        ELSE hooks[i]]
               ELSE Append(hooks, [name |-> placeholder,
                          hook |-> CallHook(function_name, expr, b_index(g), g)]),
     value |-> placeholder]
get_gemm_function_call(hooks, function_name, placeholder, expr, g) ==
    IF placeholder \in Names(hooks)
    THEN [raised |-> TRUE, hooks |-> hooks, value |-> <<>>]
    ELSE [raised |-> FALSE,
          hooks |-> Append(hooks, [name |-> placeholder,
                      hook |-> CallHook(function_name, expr, b_index(g), g)]),
          value |-> placeholder]

\* The deferred hook of get_gemm_function_call:
\*   for i, buf in enumerate(call_args):
\*       if buf == self.b_index: arg_defs[i] = b_index
\*   call = f"{function_name}({', '.join(arg_defs)});"
hook_mut(function_name, expr, sym, argdefs) ==
    [kind |-> "call", name |-> <<>>, fn |-> function_name,
     args |-> argdefs.arg_defs]
hook(function_name, expr, sym, argdefs) ==
    [kind |-> "call", name |-> <<>>, fn |-> function_name,
     args |-> [i \in 1..Len(argdefs.arg_defs) |->
                 IF argdefs.call_args[i] = sym THEN expr
                 ELSE argdefs.arg_defs[i]]]

\* The deferred hook of def_kernel: the function's signature.
def_hook(function_name, argdefs) ==
    [kind |-> "def", name |-> <<>>, fn |-> function_name,
     args |-> argdefs.arg_defs]

run_hook(h, argdefs) ==
    IF h.kind = "call"
    THEN hook(h.function_name, h.b_index, h.self_b_index, argdefs)
    ELSE def_hook(h.function_name, argdefs)

Text(words) == [kind |-> "text", name |-> words, fn |-> "", args |-> <<>>]
Placeholder(name) == [kind |-> "placeholder", name |-> name, fn |-> "", args |-> <<>>]

\* sub_mm_hooks = {name: hook for name, hook in kernel.render_hooks.items()
\*                 if "FOR_BMM" in name}
sub_mm_hooks(hooks) ==
    WithoutNames(hooks, {n \in Names(hooks) : ~ContainsForBmm(n)})

\* PartialRender(result, sub_mm_hooks).finalize_all(): every placeholder of the
\* text that is a key of the hooks is replaced by what its hook returns.
finalize_all(res, hooks, argdefs) ==
    [i \in 1..Len(res) |->
        IF res[i].kind = "placeholder" /\ res[i].name \in Names(hooks)
        THEN LET e == CHOOSE e \in {hooks[j] : j \in 1..Len(hooks)} :
                         e.name = res[i].name
             IN run_hook(e.hook, argdefs)
        ELSE res[i]]

Rendering == {"threaded_mm", "single_thread_mm", "wrapper", "finalize"}

InitRender ==
    /\ render_hooks = <<>>
    /\ sizevars = <<>>
    /\ rpc = "idle"
    /\ gen = 0
    /\ result = <<>>
    /\ executed = <<>>
    /\ ret = NoRet
    /\ ncalls = 0
    /\ other_hooks = <<>>
    /\ args_at_finalize = NoArgs
    /\ b_index_log = <<>>

Init ==
    /\ DispatchOff
    /\ WeightOff
    /\ InitRender

\* render, up to MICROKERNEL_DEF: a new template instance starts its render.
RenderBegin ==
    /\ rpc = "idle"
    /\ gen < MaxRenders
    /\ gen' = gen + 1
    /\ b_index_log' = Append(b_index_log, b_index(gen + 1))
    /\ other_hooks' = render_hooks
    /\ result' = <<Text(<<"MICROKERNEL", "DEF">>)>>
    /\ rpc' = "threaded_mm"
    /\ UNCHANGED <<render_hooks, sizevars, executed, ret, ncalls, args_at_finalize>>
    /\ UNCHANGED <<dvars, wvars>>

\* GEMM_THREADED_MM_STUB + GEMM_TEMPLATE rendered with the options
RenderThreadedMM ==
    /\ rpc = "threaded_mm"
    /\ LET r == def_kernel(render_hooks, sizevars, "threaded_mm",
                           <<b_index(gen)>>, THREADED_MM_DEF_FOR_BMM, gen)
       IN  /\ render_hooks' = r.hooks
           /\ sizevars' = r.sizevars
           /\ rpc' = IF r.raised THEN "raised" ELSE "single_thread_mm"
           /\ result' = IF r.raised THEN result
                        ELSE result \o <<Placeholder(THREADED_MM_DEF_FOR_BMM),
                                         Text(<<"GEMM", "TEMPLATE">>)>>
    /\ UNCHANGED <<gen, executed, ret, ncalls, other_hooks, args_at_finalize,
                   b_index_log>>
    /\ UNCHANGED <<dvars, wvars>>

\* GEMM_SINGLE_THREAD_MM_STUB + GEMM_TEMPLATE rendered with num_threads = 1
RenderSingleThreadMM ==
    /\ rpc = "single_thread_mm"
    /\ LET r == def_kernel(render_hooks, sizevars, "single_thread_mm",
                           <<b_index(gen)>>, SINGLE_THREAD_DEF_MM_FOR_BMM, gen)
       IN  /\ render_hooks' = r.hooks
           /\ sizevars' = r.sizevars
           /\ rpc' = IF r.raised THEN "raised" ELSE "wrapper"
           /\ result' = IF r.raised THEN result
                        ELSE result \o <<Placeholder(SINGLE_THREAD_DEF_MM_FOR_BMM),
                                         Text(<<"GEMM", "TEMPLATE">>)>>
    /\ UNCHANGED <<gen, executed, ret, ncalls, other_hooks, args_at_finalize,
                   b_index_log>>
    /\ UNCHANGED <<dvars, wvars>>

\* BMM_WRAPPER rendered: the wrapper's def_kernel, then the two call sites.
RenderWrapper ==
    /\ rpc = "wrapper"
    /\ LET d == def_kernel(render_hooks, sizevars, "kernel", <<>>, DEF_KERNEL, gen)
           c1 == get_gemm_function_call(d.hooks, "single_thread_mm",
                     SINGLE_THREAD_CALL_FOR_BMM, "b_start", gen)
           c2 == get_gemm_function_call(c1.hooks, "threaded_mm",
                     THREADED_MM_CALL_FOR_BMM, "b_start", gen)
           raised == d.raised \/ c1.raised \/ c2.raised
       IN  /\ render_hooks' = IF d.raised THEN d.hooks
                              ELSE IF c1.raised THEN c1.hooks ELSE c2.hooks
           /\ sizevars' = d.sizevars
           /\ rpc' = IF raised THEN "raised" ELSE "finalize"
           /\ result' = IF raised THEN result
                        ELSE result \o <<Placeholder(DEF_KERNEL),
                                         Text(<<"FOR", "SINGLE">>), Placeholder(c1.value),
                                         Text(<<"FOR", "THREADED">>), Placeholder(c2.value)>>
    /\ UNCHANGED <<gen, executed, ret, ncalls, other_hooks, args_at_finalize,
                   b_index_log>>
    /\ UNCHANGED <<dvars, wvars>>

\* "Finalize the function definitions for the gemm routines" to the return.
RenderFinalize ==
    /\ rpc = "finalize"
    /\ LET sub == sub_mm_hooks(render_hooks)
           argdefs == python_argdefs(sizevars)
       IN  /\ result' = finalize_all(result, sub, argdefs)
           /\ executed' = executed \o
                            [i \in 1..Len(sub) |-> [name |-> sub[i].name, by |-> gen]]
           /\ args_at_finalize' = argdefs
           /\ render_hooks' = WithoutNames(render_hooks, Names(sub))
           /\ IF b_index(gen) \in Keys(sizevars)
              THEN sizevars' = del_sizevar(sizevars, b_index(gen)) /\ rpc' = "returned"
              ELSE sizevars' = sizevars /\ rpc' = "raised"
    /\ UNCHANGED <<gen, ret, ncalls, other_hooks, b_index_log>>
    /\ UNCHANGED <<dvars, wvars>>

\* The caller of render resolves what render left for it: the wrapper's own
\* definition placeholder.
KernelRenderFinalize ==
    /\ rpc = "returned"
    /\ executed' = IF DEF_KERNEL \in Names(render_hooks)
                   THEN Append(executed, [name |-> DEF_KERNEL, by |-> 0])
                   ELSE executed
    /\ render_hooks' = WithoutNames(render_hooks, {DEF_KERNEL})
    /\ rpc' = "idle"
    /\ UNCHANGED <<sizevars, gen, result, ret, ncalls, other_hooks,
                   args_at_finalize, b_index_log>>
    /\ UNCHANGED <<dvars, wvars>>

\* Another part of the compiler registers a placeholder of its own.
RegisterForeignHook(name) ==
    /\ rpc \in Rendering \cup {"idle"}
    /\ name \notin Names(render_hooks)
    /\ render_hooks' = Append(render_hooks, [name |-> name, hook |-> ForeignHook])
    /\ other_hooks' = Append(other_hooks, [name |-> name, hook |-> ForeignHook])
    /\ UNCHANGED <<sizevars, rpc, gen, result, executed, ret, ncalls,
                   args_at_finalize, b_index_log>>
    /\ UNCHANGED <<dvars, wvars>>

\* The templates register the size variables of the operands' shapes.
RegisterForeignSizevar(s) ==
    /\ rpc \in Rendering \cup {"idle"}
    /\ s.sym \notin Keys(sizevars)
    /\ sizevars' = Append(sizevars, s)
    /\ UNCHANGED <<render_hooks, rpc, gen, result, executed, ret, ncalls,
                   other_hooks, args_at_finalize, b_index_log>>
    /\ UNCHANGED <<dvars, wvars>>

\* A direct call of get_gemm_function_call(kernel, function_name, placeholder, b_index)
CallGetGemmFunctionCall(function_name, placeholder) ==
    /\ rpc = "idle"
    /\ ncalls < MaxCalls
    /\ LET r == get_gemm_function_call(render_hooks, function_name, placeholder,
                                       "b_start", 0)
       IN  /\ render_hooks' = r.hooks
           /\ ret' = [token |-> placeholder,
                      outcome |-> IF r.raised THEN "raised" ELSE "returned",
                      value |-> r.value]
    /\ ncalls' = ncalls + 1
    /\ UNCHANGED <<sizevars, rpc, gen, result, executed, other_hooks,
                   args_at_finalize, b_index_log>>
    /\ UNCHANGED <<dvars, wvars>>

Next ==
    \/ RenderBegin
    \/ RenderThreadedMM
    \/ RenderSingleThreadMM
    \/ RenderWrapper
    \/ RenderFinalize
    \/ KernelRenderFinalize
    \/ \E name \in ForeignPlaceholders : RegisterForeignHook(name)
    \/ \E s \in ForeignSizevars : RegisterForeignSizevar(s)
    \/ \E f \in {"single_thread_mm", "threaded_mm"}, ph \in CallPlaceholders :
          CallGetGemmFunctionCall(f, ph)

Spec == Init /\ [][Next]_vars

\* ----------------------------------------------- claims on the generator

BmmPlaceholders ==
    {SINGLE_THREAD_DEF_MM_FOR_BMM, THREADED_MM_DEF_FOR_BMM,
     SINGLE_THREAD_CALL_FOR_BMM, THREADED_MM_CALL_FOR_BMM}

Entries(hooks) == {hooks[i] : i \in 1..Len(hooks)}

\* What the render may not touch: every entry registered before it began, or
\* by other code while it ran, is still present with the same callback, and
\* the render has executed none of them.
ForeignEntriesKept ==
    /\ \A e \in Entries(other_hooks) : e \in Entries(render_hooks)
    /\ \A i \in 1..Len(executed) :
         executed[i].by = gen =>
            /\ executed[i].name \notin Names(other_hooks)
            /\ executed[i].name \notin ForeignPlaceholders

C5_Step ==
    ncalls' # ncalls =>
        /\ IF ret'.token \in Names(render_hooks)
           THEN /\ ret'.outcome = "raised"
                /\ render_hooks' = render_hooks
           ELSE /\ ret'.outcome = "returned"
                /\ ret'.value = ret'.token
                /\ Len(render_hooks') = Len(render_hooks) + 1
                /\ SubSeq(render_hooks', 1, Len(render_hooks)) = render_hooks
                /\ render_hooks'[Len(render_hooks')].name = ret'.token
                /\ render_hooks'[Len(render_hooks')].hook.kind = "call"
        /\ executed' = executed
        /\ result' = result
        /\ sizevars' = sizevars

\* C5: get_gemm_function_call raises when the placeholder is already a key of
\* kernel.render_hooks, leaving the registry exactly as it was (the existing
\* hook is not overwritten); for a new token it adds exactly one entry
\* (token -> deferred hook) and returns the token without executing the hook.
C5_FailFastOnDuplicateToken == [][C5_Step]_vars

C5_Witness ==
    /\ ret.outcome = "raised"
    /\ ret.token \in Names(render_hooks)
    /\ ncalls = 2

CallItems ==
    LET F[i \in 0..Len(result)] ==
            IF i = 0 THEN <<>>
            ELSE IF result[i].kind = "call" THEN Append(F[i - 1], result[i])
                 ELSE F[i - 1]
    IN F[Len(result)]

\* C10: the hook registered by get_gemm_function_call, executed at finalize,
\* produces function_name(args) whose argument list has the length and order of
\* the kernel's argument list at that moment, with the caller's index
\* expression at every position whose call argument is the batch index symbol
\* and every other argument unchanged; the two call sites of one render get
\* the same arguments.
C10_CallSiteArguments ==
    rpc = "returned" =>
        /\ Len(CallItems) = 2
        /\ CallItems[1].fn = "single_thread_mm"
        /\ CallItems[2].fn = "threaded_mm"
        /\ CallItems[1].args = CallItems[2].args
        /\ \A c \in 1..2 :
              /\ Len(CallItems[c].args) = Len(args_at_finalize.arg_defs)
              /\ \A i \in 1..Len(args_at_finalize.arg_defs) :
                    CallItems[c].args[i] =
                        IF args_at_finalize.call_args[i] = b_index_log[gen]
                        THEN "b_start"
                        ELSE args_at_finalize.arg_defs[i]
              /\ \E i \in 1..Len(CallItems[c].args) : CallItems[c].args[i] = "b_start"

C10_Witness ==
    /\ rpc = "returned"
    /\ Len(args_at_finalize.arg_defs) = 6
    /\ args_at_finalize.call_args[5] = b_index_log[gen]

\* =========================================================================
\* Weight preprocessing
\* =========================================================================

\* cpp_micro_gemm.LayoutType, and a layout requirement outside it.
LayoutType == {"NORMAL", "VNNI2", "VNNI4"}
UnsupportedLayouts == {"VNNI8"}

\* The weight arguments: IR nodes (ir.Buffer, ir.TensorBox, ir.ReinterpretView)
\* and torch.Tensor.  "constant": the node's name is in V.graph.constants; a
\* torch.Tensor is the value of such a constant.
WeightKinds == {"Buffer", "TensorBox", "ReinterpretView", "Tensor"}
IsIRNode(w) == w.kind \in {"Buffer", "TensorBox", "ReinterpretView"}
IsBuffer(w) == w.kind = "Buffer"
IsTensorBox(w) == w.kind = "TensorBox"
InConstants(w) == w.constant

Weights ==
    {w \in [kind : WeightKinds, constant : BOOLEAN, contiguous : BOOLEAN,
            ops : {<<>>}] :
        w.kind = "Tensor" => w.constant}

Op(name, arg) == [op |-> name, arg |-> arg]

\* CppBmmTemplate.check_if_block_weight
check_if_block_weight(w, layout) ==
    \/ layout # "NORMAL"
    \/ IF IsIRNode(w)
       THEN (~w.contiguous) \/ InConstants(w)
       ELSE ~w.contiguous

\* CppGemmTemplate.get_padded_size: [num_blocks, K, block_n] and the smallest
\* multiple of block_n that is >= n.
gemm_get_padded_size(n, block_n, k, should_block_weight) ==
    LET padded_n == ((n + block_n - 1) \div block_n) * block_n
    IN  [new_size |-> <<padded_n \div block_n, k, block_n>>, padded_n |-> padded_n]

\* CppBmmTemplate.get_padded_size
get_padded_size(n, block_n, k, should_block_weight) ==
    IF should_block_weight
    THEN LET r == gemm_get_padded_size(n, block_n, k, should_block_weight)
         IN  [new_size |-> <<-1>> \o r.new_size, padded_n |-> r.padded_n]
    ELSE [new_size |-> <<-1, k, n>>, padded_n |-> n]

\* if not isinstance(W, ir.TensorBox): W = ir.TensorBox(W)
TensorBox(w) == IF IsTensorBox(w) THEN w ELSE [w EXCEPT !.kind = "TensorBox"]

\* CppGemmTemplate._block_weight_irnode on a constant: the blocked constant is
\* a buffer of the new size; no lowering is emitted.
gemm_block_weight_irnode(w, new_size, padding) ==
    [w EXCEPT !.kind = "Buffer", !.contiguous = TRUE]

\* permuted_size[-2], permuted_size[-3] = permuted_size[-3], permuted_size[-2]
permuted_size(new_size) ==
    LET m == Len(new_size)
    IN  [i \in 1..m |-> IF i = m - 1 THEN new_size[m - 2]
                        ELSE IF i = m - 2 THEN new_size[m - 1]
                        ELSE new_size[i]]

\* CppBmmTemplate._block_weight_irnode
block_weight_irnode(w, new_size, padding) ==
    IF ~IsIRNode(w)
    THEN [raised |-> TRUE, value |-> w]
    ELSE IF InConstants(w)
    THEN [raised |-> FALSE, value |-> gemm_block_weight_irnode(w, new_size, padding)]
    ELSE [raised |-> FALSE,
          value |-> [TensorBox(w) EXCEPT
                       !.contiguous = FALSE,
                       !.ops = @ \o <<Op("constant_pad_nd", <<0, padding>>),
                                      Op("view", permuted_size(new_size)),
                                      Op("permute", <<0, 2, 1, 3>>)>>]]

\* vnni_view_size[-2] = k // vnni_size; vnni_view_size.insert(-1, vnni_size)
vnni_view_size(new_size, vnni_size) ==
    LET m == Len(new_size)
        k == new_size[m - 1]
    IN  SubSeq(new_size, 1, m - 2) \o <<k \div vnni_size, vnni_size, new_size[m]>>

\* CppBmmTemplate._pack_vnni_weight_irnode
pack_vnni_weight_irnode(w, layout, new_size) ==
    IF IsBuffer(w) /\ InConstants(w)
    THEN [raised |-> FALSE, value |-> w]
    ELSE LET vnni_size == IF layout = "VNNI4" THEN 4 ELSE 2
             boxed == TensorBox(w)
             packed ==
                IF layout # "NORMAL"
                THEN [boxed EXCEPT
                        !.ops = @ \o <<Op("view", vnni_view_size(new_size, vnni_size)),
                                       Op("permute", <<0, 1, 2, 4, 3>>),
                                       Op("view", new_size)>>]
                ELSE boxed
         IN  [raised |-> FALSE,
              value |-> [packed EXCEPT
                           !.contiguous = TRUE,
                           !.ops = @ \o <<Op("realize_input", <<>>),
                                          Op("require_contiguous", <<>>)>>]]

NoOut == [fn |-> "none", raised |-> FALSE, value |-> [kind |-> "none"]]

\* K is a multiple of the interleave factors, as the microkernels require.
InitWeight ==
    /\ DispatchOff
    /\ RenderOff
    /\ W \in Weights
    /\ b_layout \in LayoutType \cup UnsupportedLayouts
    /\ dims \in [n : 1..MaxN, k : {4, 8}, block_n : {2, 4}]
    /\ wop = "input"
    /\ wout = NoOut

ShouldBlock == check_if_block_weight(W, b_layout)
Plan == get_padded_size(dims.n, dims.block_n, dims.k, ShouldBlock)

ApplyCheckIfBlockWeight ==
    /\ wop = "input"
    /\ wop' = "check_if_block_weight"
    /\ wout' = [fn |-> "check_if_block_weight", raised |-> FALSE,
                value |-> check_if_block_weight(W, b_layout)]
    /\ UNCHANGED <<W, b_layout, dims>>
    /\ UNCHANGED <<dvars, rvars>>

ApplyGetPaddedSize(should_block_weight) ==
    /\ wop = "input"
    /\ wop' = "get_padded_size"
    /\ wout' = [fn |-> "get_padded_size", raised |-> FALSE,
                value |-> get_padded_size(dims.n, dims.block_n, dims.k,
                                          should_block_weight)]
    /\ UNCHANGED <<W, b_layout, dims>>
    /\ UNCHANGED <<dvars, rvars>>

ApplyBlockWeight ==
    /\ wop = "input"
    /\ ShouldBlock
    /\ LET r == block_weight_irnode(W, Plan.new_size, Plan.padded_n - dims.n)
       IN  wout' = [fn |-> "_block_weight_irnode", raised |-> r.raised,
                    value |-> r.value]
    /\ wop' = "_block_weight_irnode"
    /\ UNCHANGED <<W, b_layout, dims>>
    /\ UNCHANGED <<dvars, rvars>>

ApplyPackVnniWeight ==
    /\ wop = "input"
    /\ LET r == pack_vnni_weight_irnode(W, b_layout, Plan.new_size)
       IN  wout' = [fn |-> "_pack_vnni_weight_irnode", raised |-> r.raised,
                    value |-> r.value]
    /\ wop' = "_pack_vnni_weight_irnode"
    /\ UNCHANGED <<W, b_layout, dims>>
    /\ UNCHANGED <<dvars, rvars>>

\* The result of one step is the weight the next step is given.
FeedResult ==
    /\ wop \in {"_block_weight_irnode", "_pack_vnni_weight_irnode"}
    /\ ~wout.raised
    /\ Len(wout.value.ops) <= MaxOps
    /\ W' = wout.value
    /\ wop' = "input"
    /\ wout' = NoOut
    /\ UNCHANGED <<b_layout, dims>>
    /\ UNCHANGED <<dvars, rvars>>

NextWeight ==
    \/ ApplyCheckIfBlockWeight
    \/ \E sbw \in BOOLEAN : ApplyGetPaddedSize(sbw)
    \/ ApplyBlockWeight
    \/ ApplyPackVnniWeight
    \/ FeedResult

SpecWeight == InitWeight /\ [][NextWeight]_vars

\* ------------------------------------------- claims on the preprocessing

\* C7: check_if_block_weight returns true if and only if the required layout
\* is not normal, or the weight is not contiguous, or the weight is a
\* compile-time constant, for every kind of weight argument it accepts.
C7_Original ==
    wop = "check_if_block_weight" =>
        (wout.value <=> (b_layout # "NORMAL" \/ ~W.contiguous \/ W.constant))

\* C8: for a weight that is a compile-time constant, _block_weight_irnode emits
\* no pad/view/permute rewrite and _pack_vnni_weight_irnode returns the weight
\* unchanged, whatever wrapper type the node has and whatever the layout is.
C8_Original ==
    (W.constant /\ ~wout.raised) =>
        /\ wop = "_block_weight_irnode" => wout.value.ops = W.ops
        /\ wop = "_pack_vnni_weight_irnode" => wout.value = W

====
